---- MODULE Spec2Model ----
(***************************************************************************)
(* Model of gui/src/2D/controls/virtualKeyboard.ts: the VirtualKeyboard    *)
(* panel, its rows of key buttons, its shift state and the wiring between  *)
(* the panel and an attached InputText.                                    *)
(*                                                                         *)
(* Strings that are case-converted (key labels) are sequences of UTF-16    *)
(* code units; style values and input names are TLA+ strings.              *)
(***************************************************************************)
EXTENDS Integers, Sequences, FiniteSets, TLC

\* ------------------------------------------------------------------ bounds
\* Most rows a panel holds.
MaxRows == 2
\* Most connect() calls of one run (each creates three fresh observers).
MaxConnects == 2
\* Most rows of a panel whose rows are built from styled inputs (SpecRows).
MaxStyledRows == 1
MaxListeners == 1

\* ------------------------------------------------------- labels and casing
\* "⇧", the shift glyph
ShiftGlyph == <<8679>>
\* "←", the backspace glyph
BackspaceGlyph == <<8592>>
\* "↵", the enter glyph
EnterGlyph == <<8629>>

\* String.prototype.toUpperCase on one code unit: a..z -> A..Z, sharp s (223)
\* -> SS; digits, punctuation, glyphs and capitals map to themselves.
UpperOfChar(c) ==
    CASE c \in 97..122 -> <<c - 32>>
      [] c = 223 -> <<83, 83>>
      [] OTHER -> <<c>>

\* String.prototype.toLowerCase on one code unit: A..Z -> a..z.
LowerOfChar(c) ==
    CASE c \in 65..90 -> <<c + 32>>
      [] OTHER -> <<c>>

RECURSIVE toUpperCase(_)
toUpperCase(str) ==
    IF str = <<>> THEN <<>> ELSE UpperOfChar(Head(str)) \o toUpperCase(Tail(str))

RECURSIVE toLowerCase(_)
toLowerCase(str) ==
    IF str = <<>> THEN <<>> ELSE LowerOfChar(Head(str)) \o toLowerCase(Tail(str))

\* ------------------------------------------------------------ KeyPropertySet
\* A field of a KeyPropertySet that is not set (undefined).
Absent == "<undefined>"

\* JavaScript truthiness of an optional string: undefined and "" are falsy.
Truthy(v) == v # Absent /\ v # ""

StyleFields ==
    {"width", "height", "color", "background",
     "paddingLeft", "paddingRight", "paddingTop", "paddingBottom"}

\* The KeyPropertySet with no field set, {}.
EmptySet == [f \in StyleFields |-> Absent]

\* An optional value: <<>> is null / undefined, <<x>> is x.
None == <<>>
Some(x) == <<x>>

\* ---------------------------------------------------------------- the state
VARIABLES
    children,            \* the panel's rows, each a sequence of key buttons
    defaults,            \* defaultButton*, shiftButtonColor, selectedShiftThickness
    shiftState,          \* VirtualKeyboard.shiftState
    isVisible,           \* Control.isVisible of the panel
    connectedInputText,  \* _connectedInputText, or NoInput
    onFocusObserver,     \* _onFocusObserver (observer handle, or NoObserver)
    onBlurObserver,      \* _onBlurObserver
    onKeyPressObserver,  \* _onKeyPressObserver
    focusObservers,      \* per input: the observers of its onFocusObservable
    blurObservers,       \* per input: the observers of its onBlurObservable
    keyPressObservers,   \* the observers of the panel's onKeyPressObservable
    connects,            \* number of connect() calls so far (names the observers)
    calls,               \* processKey calls made by the latest key press
    isDisposed,          \* the panel went through dispose()
    lastOp               \* the latest operation and what it was given

vars ==
    <<children, defaults, shiftState, isVisible, connectedInputText,
      onFocusObserver, onBlurObserver, onKeyPressObserver, focusObservers,
      blurObservers, keyPressObservers, connects, calls, isDisposed, lastOp>>

\* The InputText controls of the scene.
Inputs == {"inputA", "inputB"}
\* Nullable<InputText>: no input.
NoInput == "null"
\* Nullable<Observer>: no observer (observers are numbered from 1).
NoObserver == 0

\* The field initialisers of the class.
InitialDefaults ==
    [ defaultButtonWidth |-> "40px",
      defaultButtonHeight |-> "40px",
      defaultButtonPaddingLeft |-> "2px",
      defaultButtonPaddingRight |-> "2px",
      defaultButtonPaddingTop |-> "2px",
      defaultButtonPaddingBottom |-> "2px",
      defaultButtonColor |-> "#DDD",
      defaultButtonBackground |-> "#070707",
      shiftButtonColor |-> "#7799FF",
      selectedShiftThickness |-> 1 ]

\* ----------------------------------------------------------------- _createKey
\* StyleOr never reading the property set.
StyleOrFallback(propertySet, f, fallback) == fallback

\* propertySet && propertySet.f ? propertySet.f : fallback
StyleOr(propertySet, f, fallback) ==
    IF propertySet # None /\ Truthy(propertySet[1][f]) THEN propertySet[1][f]
    ELSE fallback

\* The button _createKey builds; text is the label of its TextBlock child.
createKey(key, propertySet, d) ==
    [ key |-> key,
      text |-> key,
      width |-> StyleOr(propertySet, "width", d.defaultButtonWidth),
      height |-> StyleOr(propertySet, "height", d.defaultButtonHeight),
      color |-> StyleOr(propertySet, "color", d.defaultButtonColor),
      background |-> StyleOr(propertySet, "background", d.defaultButtonBackground),
      paddingLeft |-> StyleOr(propertySet, "paddingLeft", d.defaultButtonPaddingLeft),
      paddingRight |-> StyleOr(propertySet, "paddingRight", d.defaultButtonPaddingRight),
      paddingTop |-> StyleOr(propertySet, "paddingTop", d.defaultButtonPaddingTop),
      paddingBottom |-> StyleOr(propertySet, "paddingBottom", d.defaultButtonPaddingBottom),
      thickness |-> 0,
      isFocusInvisible |-> TRUE ]

\* ----------------------------------------------------------------- addKeysRow
\* propertiesFor without the length comparison: propertySets[i] whenever the
\* array reaches that far.
propertiesForAnyLength(keys, propertySets, i) ==
    IF propertySets # None /\ i <= Len(propertySets[1])
    THEN Some(propertySets[1][i])
    ELSE None

\* The property set addKeysRow hands to _createKey for key i.
propertiesFor(keys, propertySets, i) ==
    IF propertySets # None /\ Len(propertySets[1]) = Len(keys)
    THEN Some(propertySets[1][i])
    ELSE None

\* The row (a horizontal StackPanel) addKeysRow builds.
buildRow(keys, propertySets, d) ==
    [i \in 1..Len(keys) |-> createKey(keys[i], propertiesFor(keys, propertySets, i), d)]

\* ------------------------------------------------------------ applyShiftState
\* shiftButton flipping the case of the label instead of setting it.
shiftButtonToggles(button, state, d) ==
    LET restyled ==
            IF button.text = ShiftGlyph
            THEN [button EXCEPT
                    !.color = IF state # 0 THEN d.shiftButtonColor
                              ELSE d.defaultButtonColor,
                    !.thickness = IF state > 1 THEN d.selectedShiftThickness ELSE 0]
            ELSE button
    IN  [restyled EXCEPT
            !.text = IF button.text = toUpperCase(button.text)
                     THEN toLowerCase(button.text)
                     ELSE toUpperCase(button.text)]

\* shiftButton without the test for the shift glyph: every button is restyled.
shiftButtonRestylesAll(button, state, d) ==
    [button EXCEPT
        !.color = IF state # 0 THEN d.shiftButtonColor ELSE d.defaultButtonColor,
        !.thickness = IF state > 1 THEN d.selectedShiftThickness ELSE 0,
        !.text = IF state > 0 THEN toUpperCase(button.text)
                 ELSE toLowerCase(button.text)]

\* The loop body of applyShiftState on one button.
shiftButton(button, state, d) ==
    LET restyled ==
            IF button.text = ShiftGlyph
            THEN [button EXCEPT
                    !.color = IF state # 0 THEN d.shiftButtonColor
                              ELSE d.defaultButtonColor,
                    !.thickness = IF state > 1 THEN d.selectedShiftThickness ELSE 0]
            ELSE button
    IN  [restyled EXCEPT
            !.text = IF state > 0 THEN toUpperCase(button.text)
                     ELSE toLowerCase(button.text)]

\* applyShiftState over every button of every row.
applyShiftStateTo(rows, state, d) ==
    [i \in 1..Len(rows) |->
        [j \in 1..Len(rows[i]) |-> shiftButton(rows[i][j], state, d)]]

\* -------------------------------------------------------------- Observable
\* Observable.add: the new observer goes to the end of the list.
add(observers, observer) == Append(observers, observer)

\* Observable.remove of a focus/blur observer: nothing for a null handle or
\* an observer that is not in the list.
remove(observers, handle) ==
    IF handle = NoObserver THEN observers
    ELSE SelectSeq(observers, LAMBDA o : o # handle)

\* Observable.remove on onKeyPressObservable (observers carry their closure).
removeKeyPress(observers, handle) ==
    IF handle = NoObserver THEN observers
    ELSE SelectSeq(observers, LAMBDA o : o.id # handle)

\* ------------------------------------------------------ the key-press router
\* InputText.processKey(keyCode) and processKey(keyCode, key) as seen by the
\* input: who received it, the code, and the character when one is given.
processKey(input, keyCode, key) ==
    [input |-> input, keyCode |-> keyCode, key |-> key]

\* incrementShift with the wrap one state early (if (this.shiftState > 1)).
incrementShiftWrapsAtTwo(s) ==
    LET incremented == s + 1
    IN  IF incremented > 1 THEN 0 ELSE incremented

\* this.shiftState++ and the wrap to 0 above 2.
incrementShift(s) ==
    LET incremented == s + 1
    IN  IF incremented > 2 THEN 0 ELSE incremented

\* The character a literal key forwards: this.shiftState ? key.toUpperCase() : key
forwardedKey(s, key) == IF s # 0 THEN toUpperCase(key) ELSE key

\* receiver reading the closure's captured `input` parameter instead.
capturedInput(observer, connected) == observer.input

\* The input the router sends to: this._connectedInputText. observer.input is
\* the `input` parameter the closure captured, which the code does not read.
receiver(observer, connected) == connected

\* resetSingleShift without the applyShiftState call.
resetWithoutRefresh(st, d) ==
    IF st.shiftState = 1 THEN [st EXCEPT !.shiftState = 0] ELSE st

\* The end of the router after a literal key: single shift resets.
resetSingleShift(st, d) ==
    IF st.shiftState = 1
    THEN [st EXCEPT !.shiftState = 0,
                    !.children = applyShiftStateTo(st.children, 0, d)]
    ELSE st

\* router with the `return` after the enter case missing: the press falls
\* through to the literal branch.
routerWithoutReturn(st, observer, key, connected, d) ==
    IF connected = NoInput THEN st
    ELSE IF key = ShiftGlyph THEN
        LET s == incrementShift(st.shiftState)
        IN  [st EXCEPT !.shiftState = s,
                       !.children = applyShiftStateTo(st.children, s, d)]
    ELSE IF key = BackspaceGlyph THEN
        [st EXCEPT !.calls =
            Append(@, processKey(receiver(observer, connected), 8, None))]
    ELSE
        LET entered ==
                IF key = EnterGlyph
                THEN [st EXCEPT !.calls =
                        Append(@, processKey(receiver(observer, connected), 13, None))]
                ELSE st
        IN  resetSingleShift(
                [entered EXCEPT !.calls =
                    Append(@, processKey(receiver(observer, connected), -1,
                                         Some(forwardedKey(entered.shiftState, key))))],
                d)

\* One run of the closure connect() registers on onKeyPressObservable.
\* st holds what the closure reads and writes: shiftState, children, calls.
router(st, observer, key, connected, d) ==
    IF connected = NoInput THEN st
    ELSE IF key = ShiftGlyph THEN
        LET s == incrementShift(st.shiftState)
        IN  [st EXCEPT !.shiftState = s,
                       !.children = applyShiftStateTo(st.children, s, d)]
    ELSE IF key = BackspaceGlyph THEN
        [st EXCEPT !.calls =
            Append(@, processKey(receiver(observer, connected), 8, None))]
    ELSE IF key = EnterGlyph THEN
        [st EXCEPT !.calls =
            Append(@, processKey(receiver(observer, connected), 13, None))]
    ELSE
        resetSingleShift(
            [st EXCEPT !.calls =
                Append(@, processKey(receiver(observer, connected), -1,
                                     Some(forwardedKey(st.shiftState, key))))],
            d)

\* disconnect() called while a key press is being dispatched, on the panel
\* state the dispatch carries (st.connected is this._connectedInputText).
disconnectIn(st, focusHandle, blurHandle, keyPressHandle) ==
    IF st.connected = NoInput THEN st
    ELSE [st EXCEPT
            !.focusObservers[st.connected] = remove(@, focusHandle),
            !.blurObservers[st.connected] = remove(@, blurHandle),
            !.keyPressObservers = removeKeyPress(@, keyPressHandle),
            !.connected = NoInput]

\* notify with the router deciding on the input its connect() was given
\* instead of the input attached now.
notifyCaptured(st, observer, key, d, focusHandle, blurHandle, keyPressHandle) ==
    IF observer.kind = "router"
    THEN router(st, observer, key, observer.input, d)
    ELSE disconnectIn(st, focusHandle, blurHandle, keyPressHandle)

\* One observer of onKeyPressObservable run on a key: a router of connect(),
\* or a listener of the application that calls disconnect().
notify(st, observer, key, d, focusHandle, blurHandle, keyPressHandle) ==
    IF observer.kind = "router"
    THEN router(st, observer, key, st.connected, d)
    ELSE disconnectIn(st, focusHandle, blurHandle, keyPressHandle)

\* Observable.notifyObservers(key): every observer in order of registration.
\* A router that disconnect() removes during the dispatch is still run here;
\* whether the Observable runs or skips it, it finds no input attached and
\* returns, so both give the same result.
RECURSIVE notifyObservers(_, _, _, _, _, _, _)
notifyObservers(observers, st, key, d, focusHandle, blurHandle, keyPressHandle) ==
    IF observers = <<>> THEN st
    ELSE notifyObservers(
            Tail(observers),
            notify(st, Head(observers), key, d,
                   focusHandle, blurHandle, keyPressHandle),
            key, d, focusHandle, blurHandle, keyPressHandle)

\* --------------------------------------------------------------- operations
Op(name, key, input) == [op |-> name, key |-> key, input |-> input, threw |-> FALSE]

Init ==
    /\ children = <<>>
    /\ defaults = InitialDefaults
    /\ shiftState = 0
    /\ isVisible = TRUE
    /\ connectedInputText = NoInput
    /\ onFocusObserver = NoObserver
    /\ onBlurObserver = NoObserver
    /\ onKeyPressObserver = NoObserver
    /\ focusObservers = [i \in Inputs |-> <<>>]
    /\ blurObservers = [i \in Inputs |-> <<>>]
    /\ keyPressObservers = <<>>
    /\ connects = 0
    /\ calls = <<>>
    /\ isDisposed = FALSE
    /\ lastOp = Op("new", None, NoInput)

\* addKeysRow(keys, propertySets)
AddKeysRow(keys, propertySets) ==
    /\ children' = Append(children, buildRow(keys, propertySets, defaults))
    /\ lastOp' = Op("addKeysRow", None, NoInput)
    /\ UNCHANGED <<defaults, shiftState, isVisible, connectedInputText,
                   onFocusObserver, onBlurObserver, onKeyPressObserver,
                   focusObservers, blurObservers, keyPressObservers, connects,
                   calls, isDisposed>>

\* An assignment to the public default* / shift* fields.
SetDefaults(d) ==
    /\ defaults' = d
    /\ lastOp' = Op("setDefaults", None, NoInput)
    /\ UNCHANGED <<children, shiftState, isVisible, connectedInputText,
                   onFocusObserver, onBlurObserver, onKeyPressObserver,
                   focusObservers, blurObservers, keyPressObservers, connects,
                   calls, isDisposed>>

\* applyShiftState(state) called from outside the router.
ApplyShiftState(state) ==
    /\ children' = applyShiftStateTo(children, state, defaults)
    /\ lastOp' = Op("applyShiftState", None, NoInput)
    /\ UNCHANGED <<defaults, shiftState, isVisible, connectedInputText,
                   onFocusObserver, onBlurObserver, onKeyPressObserver,
                   focusObservers, blurObservers, keyPressObservers, connects,
                   calls, isDisposed>>

\* connect(input) that first disconnects the input attached before.
ConnectReplaces(input) ==
    LET st == IF connectedInputText = NoInput
              THEN [focusObservers |-> focusObservers,
                    blurObservers |-> blurObservers,
                    keyPressObservers |-> keyPressObservers]
              ELSE [focusObservers |->
                        [focusObservers EXCEPT ![connectedInputText] =
                            remove(@, onFocusObserver)],
                    blurObservers |->
                        [blurObservers EXCEPT ![connectedInputText] =
                            remove(@, onBlurObserver)],
                    keyPressObservers |->
                        removeKeyPress(keyPressObservers, onKeyPressObserver)]
    IN  /\ connects' = connects + 1
        /\ isVisible' = FALSE
        /\ connectedInputText' = input
        /\ onFocusObserver' = connects'
        /\ focusObservers' = [st.focusObservers EXCEPT ![input] = add(@, connects')]
        /\ onBlurObserver' = connects'
        /\ blurObservers' = [st.blurObservers EXCEPT ![input] = add(@, connects')]
        /\ onKeyPressObserver' = connects'
        /\ keyPressObservers' =
                add(st.keyPressObservers,
                    [id |-> connects', input |-> input, kind |-> "router"])
        /\ lastOp' = Op("connect", None, input)
        /\ UNCHANGED <<children, defaults, shiftState, calls, isDisposed>>

\* connect(input)
Connect(input) ==
    /\ connects' = connects + 1
    /\ isVisible' = FALSE
    /\ connectedInputText' = input
    /\ onFocusObserver' = connects'
    /\ focusObservers' = [focusObservers EXCEPT ![input] = add(@, connects')]
    /\ onBlurObserver' = connects'
    /\ blurObservers' = [blurObservers EXCEPT ![input] = add(@, connects')]
    /\ onKeyPressObserver' = connects'
    /\ keyPressObservers' =
            add(keyPressObservers,
                [id |-> connects', input |-> input, kind |-> "router"])
    /\ lastOp' = Op("connect", None, input)
    /\ UNCHANGED <<children, defaults, shiftState, calls, isDisposed>>

\* disconnect() without the early return: with no input attached the read of
\* this._connectedInputText.onFocusObservable throws.
DisconnectUnguarded ==
    /\ IF connectedInputText = NoInput
       THEN /\ lastOp' = [Op("disconnect", None, NoInput) EXCEPT !.threw = TRUE]
            /\ UNCHANGED <<connectedInputText, focusObservers, blurObservers,
                           keyPressObservers>>
       ELSE /\ focusObservers' =
                    [focusObservers EXCEPT
                        ![connectedInputText] = remove(@, onFocusObserver)]
            /\ blurObservers' =
                    [blurObservers EXCEPT
                        ![connectedInputText] = remove(@, onBlurObserver)]
            /\ keyPressObservers' =
                    removeKeyPress(keyPressObservers, onKeyPressObserver)
            /\ connectedInputText' = NoInput
            /\ lastOp' = Op("disconnect", None, connectedInputText)
    /\ UNCHANGED <<children, defaults, shiftState, isVisible, onFocusObserver,
                   onBlurObserver, onKeyPressObserver, connects, calls, isDisposed>>

\* disconnect()
Disconnect ==
    /\ IF connectedInputText = NoInput
       THEN UNCHANGED <<connectedInputText, focusObservers, blurObservers,
                        keyPressObservers>>
       ELSE /\ focusObservers' =
                    [focusObservers EXCEPT
                        ![connectedInputText] = remove(@, onFocusObserver)]
            /\ blurObservers' =
                    [blurObservers EXCEPT
                        ![connectedInputText] = remove(@, onBlurObserver)]
            /\ keyPressObservers' =
                    removeKeyPress(keyPressObservers, onKeyPressObserver)
            /\ connectedInputText' = NoInput
    /\ lastOp' = Op("disconnect", None, connectedInputText)
    /\ UNCHANGED <<children, defaults, shiftState, isVisible, onFocusObserver,
                   onBlurObserver, onKeyPressObserver, connects, calls, isDisposed>>

\* The input raises onFocusObservable: each observer shows the panel.
Focus(input) ==
    /\ isVisible' = IF focusObservers[input] # <<>> THEN TRUE ELSE isVisible
    /\ lastOp' = Op("focus", None, input)
    /\ UNCHANGED <<children, defaults, shiftState, connectedInputText,
                   onFocusObserver, onBlurObserver, onKeyPressObserver,
                   focusObservers, blurObservers, keyPressObservers, connects,
                   calls, isDisposed>>

\* The input raises onBlurObservable: each observer hides the panel.
Blur(input) ==
    /\ isVisible' = IF blurObservers[input] # <<>> THEN FALSE ELSE isVisible
    /\ lastOp' = Op("blur", None, input)
    /\ UNCHANGED <<children, defaults, shiftState, connectedInputText,
                   onFocusObserver, onBlurObserver, onKeyPressObserver,
                   focusObservers, blurObservers, keyPressObservers, connects,
                   calls, isDisposed>>

\* What a dispatch of `key` on onKeyPressObservable leaves of the panel state
\* `st` (shiftState, children, connected and the observer lists).
pressed(st, key, d, focusHandle, blurHandle, keyPressHandle) ==
    notifyObservers(st.keyPressObservers, [st EXCEPT !.calls = <<>>], key, d,
                    focusHandle, blurHandle, keyPressHandle)

\* The panel state a dispatch starts from.
Panel ==
    [ shiftState |-> shiftState, children |-> children, calls |-> calls,
      connected |-> connectedInputText, focusObservers |-> focusObservers,
      blurObservers |-> blurObservers, keyPressObservers |-> keyPressObservers ]

\* Pointer-up on button j of row i: the button's observer re-emits the key it
\* was created with on onKeyPressObservable.
KeyPress(i, j) ==
    LET key == children[i][j].key
    IN  \E done \in {pressed(Panel, key, defaults,
                              onFocusObserver, onBlurObserver, onKeyPressObserver)} :
        /\ shiftState' = done.shiftState
        /\ children' = done.children
        /\ calls' = done.calls
        /\ connectedInputText' = done.connected
        /\ focusObservers' = done.focusObservers
        /\ blurObservers' = done.blurObservers
        /\ keyPressObservers' = done.keyPressObservers
        /\ lastOp' = Op("keyPress", key, connectedInputText)
        /\ UNCHANGED <<defaults, isVisible, onFocusObserver, onBlurObserver,
                       onKeyPressObserver, connects, isDisposed>>

\* The application subscribes a listener to onKeyPressObservable that calls
\* disconnect() when a key is pressed.
Subscribe ==
    /\ keyPressObservers' =
            add(keyPressObservers,
                [id |-> -(Len(keyPressObservers) + 1), input |-> NoInput,
                 kind |-> "listener"])
    /\ lastOp' = Op("subscribe", None, NoInput)
    /\ UNCHANGED <<children, defaults, shiftState, isVisible, connectedInputText,
                   onFocusObserver, onBlurObserver, onKeyPressObserver,
                   focusObservers, blurObservers, connects, calls, isDisposed>>

\* dispose(): the class has no override, so the inherited disposal runs and
\* nothing of this file does; the observers, held in private fields that only
\* connect and disconnect use, stay where they are.
Dispose ==
    /\ isDisposed' = TRUE
    /\ lastOp' = Op("dispose", None, connectedInputText)
    /\ UNCHANGED <<children, defaults, shiftState, isVisible, connectedInputText,
                   onFocusObserver, onBlurObserver, onKeyPressObserver,
                   focusObservers, blurObservers, keyPressObservers, connects,
                   calls>>

\* ------------------------------------------------------------------- inputs
\* Rows given to addKeysRow in Spec: "a", "A" + sharp s, and the three glyphs.
WiringRows ==
    { <<ShiftGlyph, <<97>>, BackspaceGlyph>>,
      <<EnterGlyph, <<65, 223>>>> }

\* Labels of the rows given to addKeysRow in SpecRows: "a" + sharp s, and the
\* shift glyph.
StyledLabels == {<<97, 223>>, ShiftGlyph}

\* Rows of at most two keys.
StyledRows ==
    {<<>>} \cup {<<a>> : a \in StyledLabels}
           \cup {<<a, b>> : a \in StyledLabels, b \in StyledLabels}

\* { width: "200px" }, the property set CreateDefaultLayout gives the space bar
Wide == [EmptySet EXCEPT !.width = "200px"]

\* A property set with every field set.
Full ==
    [ width |-> "80px", height |-> "50px", color |-> "#111",
      background |-> "#EEE", paddingLeft |-> "1px", paddingRight |-> "3px",
      paddingTop |-> "4px", paddingBottom |-> "5px" ]

\* A property set whose width and color are set to the empty string.
Blank == [Full EXCEPT !.width = "", !.color = ""]

PropertySets == {Wide, Blank}

\* The propertySets argument: left out, or an array of 0 to 2 property sets.
PropertySetLists ==
    {None, Some(<<>>)}
        \cup {Some(<<p>>) : p \in PropertySets}
        \cup {Some(<<p, q>>) : p \in PropertySets, q \in PropertySets}

\* Values the application gives the public default fields.
OtherDefaults ==
    [ defaultButtonWidth |-> "60px",
      defaultButtonHeight |-> "30px",
      defaultButtonPaddingLeft |-> "6px",
      defaultButtonPaddingRight |-> "7px",
      defaultButtonPaddingTop |-> "8px",
      defaultButtonPaddingBottom |-> "9px",
      defaultButtonColor |-> "#FFF",
      defaultButtonBackground |-> "#000",
      shiftButtonColor |-> "#F00",
      selectedShiftThickness |-> 2 ]

DefaultsChoices == {InitialDefaults, OtherDefaults}

\* --------------------------------------------------------- CreateDefaultLayout
\* One single-character key per code unit.
Keys(units) == [i \in 1..Len(units) |-> <<units[i]>>]

\* 1 2 3 4 5 6 7 8 9 0 and the backspace glyph
DigitsRow == Keys(<<49, 50, 51, 52, 53, 54, 55, 56, 57, 48, 8592>>)
\* q w e r t y u i o p
TopRow == Keys(<<113, 119, 101, 114, 116, 121, 117, 105, 111, 112>>)
\* a s d f g h j k l ; ' and the enter glyph
HomeRow == Keys(<<97, 115, 100, 102, 103, 104, 106, 107, 108, 59, 39, 8629>>)
\* the shift glyph and z x c v b n m , . /
BottomRow == Keys(<<8679, 122, 120, 99, 118, 98, 110, 109, 44, 46, 47>>)
\* the space bar
SpaceRow == Keys(<<32>>)

\* CreateDefaultLayout with the home row ending at the apostrophe.
CreateDefaultLayoutWithoutEnter ==
    << buildRow(DigitsRow, None, InitialDefaults),
       buildRow(TopRow, None, InitialDefaults),
       buildRow(SubSeq(HomeRow, 1, 11), None, InitialDefaults),
       buildRow(BottomRow, None, InitialDefaults),
       buildRow(SpaceRow, Some(<<Wide>>), InitialDefaults) >>

\* The rows of the panel CreateDefaultLayout returns: five addKeysRow calls on
\* a new VirtualKeyboard.
CreateDefaultLayout ==
    << buildRow(DigitsRow, None, InitialDefaults),
       buildRow(TopRow, None, InitialDefaults),
       buildRow(HomeRow, None, InitialDefaults),
       buildRow(BottomRow, None, InitialDefaults),
       buildRow(SpaceRow, Some(<<Wide>>), InitialDefaults) >>

\* The panel VirtualKeyboard.CreateDefaultLayout() returns.
InitLayout ==
    /\ children = CreateDefaultLayout
    /\ defaults = InitialDefaults
    /\ shiftState = 0
    /\ isVisible = TRUE
    /\ connectedInputText = NoInput
    /\ onFocusObserver = NoObserver
    /\ onBlurObserver = NoObserver
    /\ onKeyPressObserver = NoObserver
    /\ focusObservers = [i \in Inputs |-> <<>>]
    /\ blurObservers = [i \in Inputs |-> <<>>]
    /\ keyPressObservers = <<>>
    /\ connects = 0
    /\ calls = <<>>
    /\ isDisposed = FALSE
    /\ lastOp = Op("CreateDefaultLayout", None, NoInput)

\* ------------------------------------------------------------ specifications
\* The panel wired to inputs: rows, connect, disconnect, focus, blur, presses.
Next ==
    \/ \E keys \in WiringRows : \E propertySets \in {None} :
            Len(children) < MaxRows /\ AddKeysRow(keys, propertySets)
    \/ \E input \in Inputs : connects < MaxConnects /\ Connect(input)
    \/ Disconnect
    \/ \E input \in Inputs : Focus(input)
    \/ \E input \in Inputs : Blur(input)
    \/ \E i \in 1..Len(children) : \E j \in 1..Len(children[i]) : KeyPress(i, j)

Spec == Init /\ [][Next]_vars

\* Row building: styled rows, changing defaults, applyShiftState.
NextRows ==
    \/ \E keys \in StyledRows : \E propertySets \in PropertySetLists :
            Len(children) < MaxStyledRows /\ AddKeysRow(keys, propertySets)
    \/ \E d \in DefaultsChoices : SetDefaults(d)
    \/ \E state \in 0..2 : ApplyShiftState(state)

SpecRows == Init /\ [][NextRows]_vars

\* The default layout in use: connect, disconnect and presses of the first and
\* the last key of each row.
NextLayout ==
    \/ \E input \in Inputs : connects < MaxConnects /\ Connect(input)
    \/ Disconnect
    \/ \E i \in 1..Len(children) : \E j \in {1, Len(children[i])} : KeyPress(i, j)

SpecLayout == InitLayout /\ [][NextLayout]_vars

\* Disposal: the panel is connected, disconnected and disposed while the
\* inputs go on raising focus and blur events.
NextDispose ==
    \/ \E input \in Inputs : ~isDisposed /\ connects < MaxConnects /\ Connect(input)
    \/ ~isDisposed /\ Disconnect
    \/ \E input \in Inputs : Focus(input)
    \/ \E input \in Inputs : Blur(input)
    \/ ~isDisposed /\ Dispose

SpecDispose == Init /\ [][NextDispose]_vars

\* The one row of the panel the listeners are tried on.
ListenerRows == { <<ShiftGlyph, <<97>>, EnterGlyph>> }

\* Key presses with application listeners on onKeyPressObservable that call
\* disconnect(), subscribed before or after the routers of connect().
NextListener ==
    \/ \E keys \in ListenerRows : \E propertySets \in {None} :
            children = <<>> /\ AddKeysRow(keys, propertySets)
    \/ \E input \in Inputs : connects < MaxConnects /\ Connect(input)
    \/ Disconnect
    \/ Len(keyPressObservers) - connects < MaxListeners /\ Subscribe
    \/ \E i \in 1..Len(children) : \E j \in 1..Len(children[i]) : KeyPress(i, j)

SpecListener == Init /\ [][NextListener]_vars

\* ------------------------------------------------------------------- claims
\* An input is attached.
Attached == connectedInputText # NoInput

\* The input is attached by a single connect: one router is registered.
SingleConnect == Attached /\ Len(keyPressObservers) = 1

\* A key that is not the shift, backspace or enter glyph.
IsLiteral(key) == key \notin {ShiftGlyph, BackspaceGlyph, EnterGlyph}

\* The step is a press of a key button.
Pressed == lastOp'.op = "keyPress"

\* Every button of every row of a panel.
Buttons(rows) == {rows[i][j] : <<i, j>> \in {<<i, j>> \in
    (1..Len(rows)) \X (1..3) : j <= Len(rows[i])}}

\* The processKey calls of the latest press, as a set.
Calls(cs) == {cs[n] : n \in 1..Len(cs)}

\* C1: with an input attached by a single connect, every press of the shift
\* glyph moves the shift state to (s + 1) mod 3, so three presses from 0 go
\* 0 -> 1 -> 2 -> 0; a literal key pressed in state 1 leaves the state at 0;
\* a literal key pressed in state 2 leaves it at 2, however many are pressed.
ShiftTransitions_C1 ==
    [][(SingleConnect /\ Pressed) =>
        /\ lastOp'.key = ShiftGlyph =>
              /\ shiftState = 0 => shiftState' = 1
              /\ shiftState = 1 => shiftState' = 2
              /\ shiftState = 2 => shiftState' = 0
        /\ (IsLiteral(lastOp'.key) /\ shiftState = 1) => shiftState' = 0
        /\ (IsLiteral(lastOp'.key) /\ shiftState = 2) => shiftState' = 2]_vars

\* The third press of the shift glyph has brought a singly connected panel
\* back to state 0 (the labels were upper-cased on the way and are lower again).
ShiftCycled_C1 ==
    /\ SingleConnect
    /\ lastOp.op = "keyPress"
    /\ lastOp.key = ShiftGlyph
    /\ shiftState = 0
    /\ \E b \in Buttons(children) : b.key = ShiftGlyph /\ b.color = "#DDD"

\* C2: a literal key pressed while an input is attached in shift state s
\* forwards one character, processKey(-1, c), with c the upper-cased key when
\* s > 0 and the key itself when s = 0; from s = 1 the state is 0 afterwards,
\* from s = 2 it stays 2.
LiteralForwarded_C2 ==
    [][(Attached /\ Pressed /\ IsLiteral(lastOp'.key)) =>
        /\ calls' # <<>>
        /\ \A c \in Calls(calls') :
              c = processKey(connectedInputText, -1,
                    Some(IF shiftState > 0 THEN toUpperCase(lastOp'.key)
                         ELSE lastOp'.key))
        /\ shiftState = 1 => shiftState' = 0
        /\ shiftState = 2 => shiftState' = 2]_vars

\* C3: a press of the backspace or enter glyph while an input is attached
\* sends only processKey(8), respectively processKey(13), with no character,
\* and leaves the shift state and every button as they were.
ControlKeys_C3 ==
    [][(Attached /\ Pressed /\ lastOp'.key \in {BackspaceGlyph, EnterGlyph}) =>
        /\ calls' # <<>>
        /\ \A c \in Calls(calls') :
              c = processKey(connectedInputText,
                             IF lastOp'.key = BackspaceGlyph THEN 8 ELSE 13, None)
        /\ shiftState' = shiftState
        /\ children' = children]_vars

\* Enter was pressed in single-shift state: code 13 went out and the state is
\* still 1.
EnterInSingleShift_C3 ==
    /\ lastOp.op = "keyPress"
    /\ lastOp.key = EnterGlyph
    /\ shiftState = 1
    /\ calls = <<processKey(connectedInputText, 13, None)>>

\* C4: disconnect() with no input attached does not throw, changes nothing of
\* the panel or the observables, and leaves no input attached.
DisconnectIdempotent_C4 ==
    [][(lastOp'.op = "disconnect" /\ ~Attached) =>
        /\ ~lastOp'.threw
        /\ connectedInputText' = NoInput
        /\ UNCHANGED <<children, defaults, shiftState, isVisible,
                       connectedInputText, onFocusObserver, onBlurObserver,
                       onKeyPressObserver, focusObservers, blurObservers,
                       keyPressObservers, connects, calls, isDisposed>>]_vars

\* A disconnect() ran on a panel that was connected and disconnected before.
SecondDisconnect_C4 ==
    /\ lastOp.op = "disconnect"
    /\ lastOp.input = NoInput
    /\ onKeyPressObserver # NoObserver
    /\ ~Attached

\* C5: after disconnect() on a panel with an attached input, the three
\* listeners of connect are gone and no input is attached: from then on, while
\* no input is attached, focus and blur events of any input leave the
\* visibility alone, and key presses send nothing and leave the shift state.
DisconnectReleases_C5 ==
    [][/\ (lastOp'.op = "disconnect" /\ Attached) => connectedInputText' = NoInput
       /\ (~Attached /\ lastOp'.op \in {"focus", "blur"}) => isVisible' = isVisible
       /\ (~Attached /\ Pressed) => (calls' = <<>> /\ shiftState' = shiftState)]_vars

\* C6: connect(I) hides the panel and records I; until disconnect the panel
\* is visible exactly when the latest focus/blur event of I since the connect
\* was a focus: a focus of I shows it, a blur of I hides it, and nothing else
\* but connect (key presses, events of other inputs) changes the visibility.
VisibilityFollowsInput_C6 ==
    [][/\ lastOp'.op = "connect" =>
              (~isVisible' /\ connectedInputText' = lastOp'.input)
       /\ (Attached /\ lastOp'.op = "focus" /\ lastOp'.input = connectedInputText)
              => isVisible'
       /\ (Attached /\ lastOp'.op = "blur" /\ lastOp'.input = connectedInputText)
              => ~isVisible'
       /\ (Attached /\ lastOp'.op \in {"focus", "blur"}
                    /\ lastOp'.input # connectedInputText)
              => isVisible' = isVisible
       /\ (Attached /\ Pressed) => isVisible' = isVisible]_vars

\* C7: the attached input is one input or none; only connect and disconnect
\* change it, connect to its argument; and every processKey call of a press
\* goes to the input attached at the time of the press.
SingleReceiver_C7 ==
    /\ [](connectedInputText \in Inputs \cup {NoInput})
    /\ [][/\ connectedInputText' # connectedInputText =>
                 lastOp'.op \in {"connect", "disconnect"}
          /\ lastOp'.op = "connect" => connectedInputText' = lastOp'.input
          /\ Pressed =>
                 /\ calls' # <<>> => Attached
                 /\ \A c \in Calls(calls') : c.input = connectedInputText]_vars

\* A press was routed by two routers, the first registered for another input
\* than the attached one, and both calls went to the attached input.
StaleRouterDelivers_C7 ==
    /\ lastOp.op = "keyPress"
    /\ Attached
    /\ Len(keyPressObservers) = 2
    /\ keyPressObservers[1].input # connectedInputText
    /\ Len(calls) = 2
    /\ \A c \in Calls(calls) : c.input = connectedInputText

\* A label is in upper (lower) case when upper-casing (lower-casing) keeps it.
IsUpper(text) == toUpperCase(text) = text
IsLower(text) == toLowerCase(text) = text

\* C10: right after a press by which the router changed the shift state, the
\* label of every button of every row is upper case if the new state is above
\* 0 and lower case if it is 0.
LabelsFollowShift_C10 ==
    [][(Pressed /\ shiftState' # shiftState) =>
        \A b \in Buttons(children') :
            IF shiftState' > 0 THEN IsUpper(b.text) ELSE IsLower(b.text)]_vars

\* A literal key pressed in single shift reset the state to 0 and the labels
\* are lower case again, the key "A" + sharp s among them now showing "ass".
ResetRelabels_C10 ==
    /\ lastOp.op = "keyPress"
    /\ lastOp.key = <<97>>
    /\ shiftState = 0
    /\ calls = <<processKey(connectedInputText, -1, Some(<<65>>))>>
    /\ \E b \in Buttons(children) : b.key = <<65, 223>> /\ b.text = <<97, 115, 115>>
    /\ \A b \in Buttons(children) : IsLower(b.text)

\* The panel default a style field falls back to.
DefaultFor(d, f) ==
    CASE f = "width" -> d.defaultButtonWidth
      [] f = "height" -> d.defaultButtonHeight
      [] f = "color" -> d.defaultButtonColor
      [] f = "background" -> d.defaultButtonBackground
      [] f = "paddingLeft" -> d.defaultButtonPaddingLeft
      [] f = "paddingRight" -> d.defaultButtonPaddingRight
      [] f = "paddingTop" -> d.defaultButtonPaddingTop
      [] f = "paddingBottom" -> d.defaultButtonPaddingBottom

\* The styles are supplied with one entry per label.
StylesMatch(keys, propertySets) ==
    propertySets # None /\ Len(propertySets[1]) = Len(keys)

\* The step appends one row with one key per label, in label order, on top of
\* the rows there were; Given(v) says when a style entry's field counts.
RowAppended(keys, propertySets, Given(_)) ==
    /\ Len(children') = Len(children) + 1
    /\ SubSeq(children', 1, Len(children)) = children
    /\ LET row == children'[Len(children')]
       IN  /\ Len(row) = Len(keys)
           /\ \A i \in 1..Len(keys) :
                /\ row[i].key = keys[i]
                /\ row[i].text = keys[i]
                /\ row[i].thickness = 0
                /\ \A f \in StyleFields :
                      row[i][f] =
                        IF StylesMatch(keys, propertySets)
                              /\ Given(propertySets[1][i][f])
                        THEN propertySets[1][i][f]
                        ELSE DefaultFor(defaults, f)

\* C8 as stated: a style entry's field counts whenever it is present.
RowAsStyled_C8 ==
    [][\A keys \in StyledRows : \A propertySets \in PropertySetLists :
          (lastOp'.op = "addKeysRow" /\ AddKeysRow(keys, propertySets)) =>
              RowAppended(keys, propertySets, LAMBDA v : v # Absent)]_vars

\* C8 amended: addKeysRow appends one row with one key per label, in label
\* order; a key's width, height, color, background and paddings are the
\* matching style entry's field when the styles have as many entries as there
\* are labels and that field is present and not the empty string, and else the
\* panel's default at the time of the call (styles of another length are
\* ignored); a later change of the defaults leaves the built keys as they are.
RowAsStyledNonEmpty_C8 ==
    [][/\ lastOp'.op = "addKeysRow" =>
            \A keys \in StyledRows : \A propertySets \in PropertySetLists :
              AddKeysRow(keys, propertySets) =>
                  RowAppended(keys, propertySets, LAMBDA v : v # Absent /\ v # "")
       /\ lastOp'.op = "setDefaults" => children' = children]_vars

\* After a change of the defaults, a row built from [Blank, Wide] under the
\* initial defaults: key 1 took the padding of its entry and the default width
\* for its empty width, key 2 the width of its entry and the default height.
StyledRowBuilt_C8 ==
    /\ lastOp.op = "setDefaults"
    /\ defaults = OtherDefaults
    /\ Len(children) = 1
    /\ Len(children[1]) = 2
    /\ children[1][1].paddingTop = "4px"
    /\ children[1][1].width = "40px"
    /\ children[1][2].width = "200px"
    /\ children[1][2].height = "40px"

\* C9: applyShiftState(state) a second time changes nothing: for every panel
\* and every state in 0..2, label text, color and thickness of every button
\* after two calls equal those after one.
ApplyIdempotent_C9 ==
    \A state \in 0..2 :
        applyShiftStateTo(applyShiftStateTo(children, state, defaults),
                          state, defaults)
            = applyShiftStateTo(children, state, defaults)

\* applyShiftState has run on a panel it changes: a label differs from the
\* key it was built with, the shift key is framed, and another state would
\* change the panel again.
ShiftApplied_C9 ==
    /\ lastOp.op = "applyShiftState"
    /\ \E b \in Buttons(children) : b.text # b.key
    /\ \E b \in Buttons(children) : b.key = ShiftGlyph /\ b.thickness > 0
    /\ applyShiftStateTo(children, 0, defaults) # children

\* C11: the shift state is 0, 1 or 2, and 0 on a new panel; over any sequence
\* of key presses, connects and disconnects it changes only on a press of the
\* shift glyph, to (s + 1) mod 3, or on a press of another key in state 1,
\* to 0.
ShiftStateMachine_C11 ==
    /\ [](shiftState \in 0..2 /\ (lastOp.op = "new" => shiftState = 0))
    /\ [][shiftState' # shiftState =>
            /\ Pressed
            /\ \/ lastOp'.key = ShiftGlyph /\ shiftState' = (shiftState + 1) % 3
               \/ lastOp'.key # ShiftGlyph /\ shiftState = 1 /\ shiftState' = 0]_vars

PixelsOf(width) ==
    CASE width = "40px" -> 40
      [] width = "80px" -> 80
      [] width = "200px" -> 200
      [] OTHER -> 0

KeysOf(row) == [j \in 1..Len(row) |-> row[j].key]

RowLengths == [i \in 1..Len(children) |-> Len(children[i])]

SpaceBar == children[5][1]

\* C12: the default layout has five rows of 11, 10, 12, 11 and 1 keys, with the
\* backspace glyph ending the digits row, the enter glyph ending the home row,
\* the shift glyph opening the bottom row and the space bar alone in the last
\* row; a freshly created layout has shift state 0 and no input attached.
DefaultLayout_C12 ==
    /\ RowLengths = <<11, 10, 12, 11, 1>>
    /\ KeysOf(children[1]) = DigitsRow /\ children[1][11].key = BackspaceGlyph
    /\ KeysOf(children[2]) = TopRow
    /\ KeysOf(children[3]) = HomeRow /\ children[3][12].key = EnterGlyph
    /\ KeysOf(children[4]) = BottomRow /\ children[4][1].key = ShiftGlyph
    /\ KeysOf(children[5]) = <<(<<32>>)>>
    /\ \A i \in 1..5 : \A j \in 1..Len(children[i]) :
          /\ children[i][j].key \in {BackspaceGlyph, EnterGlyph} => <<i, j>> \in {<<1, 11>>, <<3, 12>>}
          /\ children[i][j].key = ShiftGlyph => <<i, j>> = <<4, 1>>
    /\ lastOp.op = "CreateDefaultLayout" => shiftState = 0 /\ ~Attached

\* The layout as CreateDefaultLayout returns it, all five rows in place.
FreshLayout_C12 ==
    /\ lastOp.op = "CreateDefaultLayout"
    /\ Len(children) = 5
    /\ children[3][12].text = EnterGlyph
    /\ connectedInputText = NoInput

\* C13 as stated: the space bar is twice as wide as a default key.
SpaceBarDouble_C13 ==
    PixelsOf(SpaceBar.width) = 2 * PixelsOf(InitialDefaults.defaultButtonWidth)

\* C13: the space bar of the default layout is 200px wide, five times the 40px
\* default key width, by an explicit per-key style override; every other style
\* field of the space bar is the panel default, and every other key has the
\* default width.
SpaceBarWide_C13 ==
    /\ SpaceBar.width = "200px"
    /\ SpaceBar.width # DefaultFor(defaults, "width")
    /\ PixelsOf(SpaceBar.width) = 5 * PixelsOf(InitialDefaults.defaultButtonWidth)
    /\ \A f \in StyleFields \ {"width"} :
          DefaultFor(defaults, f) # Absent => SpaceBar[f] = DefaultFor(defaults, f)
    /\ \A i \in 1..4 : \A j \in 1..Len(children[i]) :
          children[i][j].width = DefaultFor(defaults, "width")

\* The space bar pressed on the default layout with an input attached.
SpaceBarPressed_C13 ==
    /\ lastOp.op = "keyPress"
    /\ lastOp.key = <<32>>
    /\ calls = << processKey(connectedInputText, -1, Some(<<32>>)) >>
    /\ Attached
    /\ SpaceBar.width = "200px"

\* C14: once the panel is disposed no focus or blur listener of connect is
\* still subscribed to an input, and no later focus or blur event shows or
\* hides the disposed panel.
DisposeReleases_C14 ==
    /\ [](isDisposed =>
            \A input \in Inputs :
                focusObservers[input] = <<>> /\ blurObservers[input] = <<>>)
    /\ [][isDisposed => isVisible' = isVisible]_vars

\* The fields of a button applyShiftState never writes.
Untouched(before, after) ==
    /\ after.key = before.key
    /\ \A f \in StyleFields \ {"color"} : after[f] = before[f]
    /\ after.isFocusInvisible = before.isFocusInvisible

\* C15: applyShiftState(state), for state 0, 1 or 2, gives every button showing
\* the shift glyph the colour shiftButtonColor when state > 0 and
\* defaultButtonColor otherwise, and the thickness selectedShiftThickness when
\* state > 1 and 0 otherwise; it leaves the colour and thickness of every other
\* button, the shift state, the attached input, the visibility and the rows and
\* keys as they were, and changes nothing on a panel without rows.
ShiftRestylesGlyphOnly_C15 ==
    [][\A state \in 0..2 :
        (lastOp'.op = "applyShiftState" /\ ApplyShiftState(state)) =>
            /\ Len(children') = Len(children)
            /\ \A i \in 1..Len(children) :
                /\ Len(children'[i]) = Len(children[i])
                /\ \A j \in 1..Len(children[i]) :
                    LET before == children[i][j]
                        after == children'[i][j]
                    IN  /\ Untouched(before, after)
                        /\ IF before.text = ShiftGlyph
                           THEN /\ after.color =
                                      IF state > 0 THEN defaults.shiftButtonColor
                                      ELSE defaults.defaultButtonColor
                                /\ after.thickness =
                                      IF state > 1 THEN defaults.selectedShiftThickness
                                      ELSE 0
                           ELSE /\ after.color = before.color
                                /\ after.thickness = before.thickness
            /\ UNCHANGED <<shiftState, connectedInputText, isVisible, defaults>>
            /\ children = <<>> =>
                  UNCHANGED <<children, shiftState, connectedInputText, isVisible,
                              defaults, keyPressObservers, focusObservers,
                              blurObservers>>]_vars

\* applyShiftState has framed and coloured the shift key of a row and left the
\* key beside it, whose label it upper-cased, unframed and in another colour.
GlyphRestyled_C15 ==
    /\ lastOp.op = "applyShiftState"
    /\ \E i \in 1..Len(children) : \E j, k \in 1..Len(children[i]) :
          /\ children[i][j].text = ShiftGlyph
          /\ children[i][j].thickness = defaults.selectedShiftThickness
          /\ children[i][j].color = defaults.shiftButtonColor
          /\ children[i][k].text = <<65, 83, 83>>
          /\ children[i][k].thickness = 0
          /\ children[i][k].color # defaults.shiftButtonColor

\* `longer` is `shorter` with observers added at the end.
Extends(longer, shorter) ==
    /\ Len(longer) >= Len(shorter)
    /\ SubSeq(longer, 1, Len(shorter)) = shorter

\* C16: a connect while an input is attached leaves every focus, blur and
\* key-press listener of the earlier connects registered and adds its own
\* three; a disconnect removes the three listeners of the latest connect and no
\* other; so a focus event of an input that still has a listener shows the
\* panel, also when no input is attached any more.
ConnectLeaks_C16 ==
    [][/\ (Attached /\ lastOp'.op = "connect") =>
            /\ \A input \in Inputs :
                /\ Extends(focusObservers'[input], focusObservers[input])
                /\ Extends(blurObservers'[input], blurObservers[input])
            /\ focusObservers'[connectedInputText'] =
                    Append(focusObservers[connectedInputText'], connects')
            /\ blurObservers'[connectedInputText'] =
                    Append(blurObservers[connectedInputText'], connects')
            /\ Extends(keyPressObservers', keyPressObservers)
            /\ Len(keyPressObservers') = Len(keyPressObservers) + 1
       /\ (Attached /\ lastOp'.op = "disconnect") =>
            /\ \A input \in Inputs :
                /\ focusObservers'[input] =
                        SelectSeq(focusObservers[input], LAMBDA o : o # connects)
                /\ blurObservers'[input] =
                        SelectSeq(blurObservers[input], LAMBDA o : o # connects)
            /\ keyPressObservers' =
                    SelectSeq(keyPressObservers, LAMBDA o : o.id # connects)
            /\ Len(keyPressObservers') = Len(keyPressObservers) - 1
       /\ \A input \in Inputs :
            (lastOp'.op = "focus" /\ lastOp'.input = input
                /\ focusObservers[input] # <<>>) => isVisible']_vars

\* connect(inputA), a second connect, disconnect, then a focus event of inputA:
\* no input is attached, the listeners of the first connect are all still
\* registered and the panel is visible.
LeakedFocusShows_C16 ==
    /\ ~Attached
    /\ connects = 2
    /\ lastOp.op = "focus" /\ lastOp.input = "inputA"
    /\ focusObservers["inputA"] = <<1>>
    /\ blurObservers["inputA"] = <<1>>
    /\ Len(keyPressObservers) = 1 /\ keyPressObservers[1].id = 1
    /\ isVisible

\* C17: whatever connects, disconnects and presses came before, a key press
\* with an input attached sends that input exactly one command when the key is
\* a literal, the backspace or the enter glyph, and sends no command and moves
\* the shift state to (s + 1) mod 3 when the key is the shift glyph.
OneCommandPerPress_C17 ==
    [][(Attached /\ Pressed) =>
        IF lastOp'.key = ShiftGlyph
        THEN calls' = <<>> /\ shiftState' = (shiftState + 1) % 3
        ELSE Len(calls') = 1 /\ calls'[1].input = connectedInputText]_vars

\* The press changes nothing on the keys and sends nothing.
NothingForwarded ==
    /\ calls' = <<>>
    /\ shiftState' = shiftState
    /\ children' = children

\* C18: a key press while no input is attached, of any key, sends no command
\* and leaves the shift state and every key's label, colour and thickness as
\* they were; so does a press during whose dispatch a listener calls
\* disconnect() before any router has run, and from the listener's call on the
\* press sends nothing more to any input.
DetachedPressInert_C18 ==
    [][Pressed =>
        /\ ~Attached => NothingForwarded /\ ~Attached'
        /\ (Attached /\ keyPressObservers[1].kind = "listener") =>
                NothingForwarded /\ ~Attached'
        /\ (\E n \in 1..Len(keyPressObservers) :
                keyPressObservers[n].kind = "listener") => ~Attached']_vars

\* The shift glyph pressed with an input attached and two routers registered
\* behind a listener that disconnects: nothing moved and no input is attached.
ListenerDetached_C18 ==
    /\ lastOp.op = "keyPress" /\ lastOp.key = ShiftGlyph /\ lastOp.input # NoInput
    /\ ~Attached
    /\ keyPressObservers # <<>> /\ keyPressObservers[1].kind = "listener"
    /\ Len(keyPressObservers) = 2 /\ keyPressObservers[2].kind = "router"
    /\ shiftState = 0
    /\ calls = <<>>

\* The panel after three presses of the shift glyph in a row.
ThreeShifts ==
    LET press(st) == pressed(st, ShiftGlyph, defaults,
                             onFocusObserver, onBlurObserver, onKeyPressObserver)
    IN  press(press(press(Panel)))

\* C19: on a panel with a shift key, connected once and in shift state 0,
\* three presses of the shift glyph bring the shift state back to 0 and leave
\* every key with the label text, colour and thickness it had before them.
ShiftCycleRestores_C19 ==
    (/\ SingleConnect
     /\ shiftState = 0
     /\ \E b \in Buttons(children) : b.key = ShiftGlyph) =>
        /\ ThreeShifts.shiftState = 0
        /\ \A i \in 1..Len(children) : \A j \in 1..Len(children[i]) :
            /\ ThreeShifts.children[i][j].text = children[i][j].text
            /\ ThreeShifts.children[i][j].color = children[i][j].color
            /\ ThreeShifts.children[i][j].thickness = children[i][j].thickness

\* C20: when a literal key is pressed with an input attached by a single
\* connect, the character the input receives is the label text a button of
\* that key shows at the moment of the press.
TypedIsShown_C20 ==
    [][(SingleConnect /\ Pressed /\ IsLiteral(lastOp'.key)) =>
        \A c \in Calls(calls') :
            \E b \in Buttons(children) :
                b.key = lastOp'.key /\ c.key = Some(b.text)]_vars
====
